---- MODULE Spec2Model ----
(***************************************************************************)
(* Model of the LiquiditySellBuyWalls strategy                             *)
(* (docker-exchangebot/exchangebots/strategies/liquidity_wall.py).         *)
(*                                                                         *)
(* Python floats are modelled as exact rationals <<numerator,denominator>> *)
(* in lowest terms with a positive denominator, so that every comparison   *)
(* the strategy makes (thresholds, minimum sizes) is decided exactly.      *)
(* The exchange (self.dex) is the environment: its data are the variable   *)
(* dex, its answers to commands are inputs of the actions.                 *)
(***************************************************************************)
EXTENDS Integers, Naturals, Sequences, FiniteSets, TLC

\* ------------------------------------------------------------------------
\* Rational arithmetic (the float operations of the source)
\* ------------------------------------------------------------------------
Abs(n) == IF n < 0 THEN -n ELSE n

RECURSIVE GCD(_, _)
GCD(a, b) == IF b = 0 THEN a ELSE GCD(b, a % b)

\* n/d divided through by g
Reduce(n, d, g) == <<n \div g, d \div g>>

Norm(n, d) == Reduce(n, d, GCD(Abs(n), d))

I(n) == <<n, 1>>
R(n, d) == Norm(n, d)

RAdd(x, y) == Norm(x[1] * y[2] + y[1] * x[2], x[2] * y[2])
RSub(x, y) == Norm(x[1] * y[2] - y[1] * x[2], x[2] * y[2])
RMul(x, y) == Norm(x[1] * y[1], x[2] * y[2])
RDiv(x, y) == IF y[1] < 0 THEN Norm(-(x[1] * y[2]), x[2] * (-y[1]))
                          ELSE Norm(x[1] * y[2], x[2] * y[1])
RLe(x, y) == x[1] * y[2] <= y[1] * x[2]
RLt(x, y) == x[1] * y[2] < y[1] * x[2]
RGe(x, y) == RLe(y, x)
RGt(x, y) == RLt(y, x)
RFabs(x) == <<Abs(x[1]), x[2]>>
RMin(x, y) == IF RLe(x, y) THEN x ELSE y

RECURSIVE RSum(_)
RSum(s) == IF s = <<>> THEN I(0) ELSE RAdd(Head(s), RSum(Tail(s)))

\* ------------------------------------------------------------------------
\* Bounds of the model
\* ------------------------------------------------------------------------
MaxCounter == 2     \* tick() is not invoked once block_counter reached it
MaxMoves == 1     \* number of changes of the exchange data between calls

\* ------------------------------------------------------------------------
\* Markets and assets
\* ------------------------------------------------------------------------
MarketUSD == "USD:BTS"
MarketCNY == "CNY:BTS"

\* market.split(market_separator)
SplitQuote(market) == IF market = MarketUSD THEN "USD" ELSE "CNY"
SplitBase(market) == "BTS"

Assets == {"USD", "CNY", "BTS"}

\* ------------------------------------------------------------------------
\* Settings: the configuration mapping handed to the strategy.  missing is
\* the set of keys absent from the mapping; the field of an absent key holds
\* a placeholder that the code never reads before init() stored a default.
\* ------------------------------------------------------------------------
RequiredKeys == <<"target_price", "spread_percentage", "volume_percentage",
                  "ratio", "borrow_percentages", "minimum_amounts",
                  "minimum_change_percentage">>

Feed == [kind |-> "str", s |-> "feed", v |-> I(0)]
Fixed(p) == [kind |-> "num", s |-> "", v |-> p]

ExampleSettings ==
    [ markets |-> <<MarketUSD, MarketCNY>>,
      borrow_percentages |-> [a \in Assets |->
            IF a = "USD" THEN I(30) ELSE IF a = "CNY" THEN I(20) ELSE I(50)],
      minimum_amounts |-> [a \in {"USD", "CNY"} |->
            IF a = "USD" THEN R(1, 5) ELSE I(1)],
      target_price |-> Feed,
      target_price_offset_percentage |-> I(0),
      spread_percentage |-> I(5),
      allowed_spread_percentage |-> R(5, 2),
      volume_percentage |-> I(10),
      symmetric_sides |-> TRUE,
      only_buy |-> FALSE,
      only_sell |-> FALSE,
      expiration |-> 21600,
      ratio |-> R(5, 2),
      skip_blocks |-> 2,
      minimum_change_percentage |-> I(10),
      calculate_bts_total |-> "worth",
      missing |-> {} ]

SettingsChoices ==
    { ExampleSettings,
      [ExampleSettings EXCEPT !.skip_blocks = 1],
      [ExampleSettings EXCEPT !.skip_blocks = 3],
      [ExampleSettings EXCEPT !.symmetric_sides = FALSE],
      [ExampleSettings EXCEPT !.only_buy = TRUE],
      [ExampleSettings EXCEPT !.only_sell = TRUE],
      [ExampleSettings EXCEPT !.target_price = Fixed(I(400))],
      [ExampleSettings EXCEPT !.target_price_offset_percentage = I(5)],
      [ExampleSettings EXCEPT !.missing = {"calculate_bts_total"}],
      [ExampleSettings EXCEPT !.missing = {"target_price_offset_percentage",
                                           "symmetric_sides", "expiration",
                                           "skip_blocks"},
                              !.symmetric_sides = FALSE,
                              !.skip_blocks = 0,
                              !.expiration = 0,
                              !.target_price_offset_percentage = I(7)],
      [ExampleSettings EXCEPT !.missing = {"ratio"}] }

\* ------------------------------------------------------------------------
\* Data of the exchange
\* ------------------------------------------------------------------------
Order(n, t, r) == [orderNumber |-> n, type |-> t, rate |-> r, total |-> I(100)]

\* Open orders of one market; n is the first order number of the market.
\* With a settlement price of 400 the rates are 1%, 1.25%, 2%, 2.5%, 3.75%
\* and 4% away from the feed.
Books(n) ==
    { <<>>,
      << Order(n, "sell", I(410)) >>,
      << Order(n, "sell", I(416)) >>,
      << Order(n, "buy", I(390)) >>,
      << Order(n, "buy", I(396)) >>,
      << Order(n, "sell", I(408)), Order(n + 1, "buy", I(390)) >>,
      << Order(n, "sell", I(410)), Order(n + 1, "buy", I(384)) >>,
      << Order(n, "sell", I(404)), Order(n + 1, "buy", I(384)) >>,
      << Order(n, "sell", I(405)), Order(n + 1, "buy", I(390)) >>,
      << Order(n, "sell", I(410)), Order(n + 1, "buy", I(385)) >> }

FewBooks(n) ==
    { <<>>,
      << Order(n, "sell", I(416)) >> }

\* returnOpenOrders(): a market may be listed or not
OpenOrdersChoices ==
    { [m \in {MarketUSD, MarketCNY} |-> IF m = MarketUSD THEN b1 ELSE b2] :
            b1 \in Books(11), b2 \in FewBooks(21) }
    \cup { [m \in {MarketCNY} |-> <<>>] }
    \cup { [m \in {} |-> <<>>] }

Position == [debt |-> I(10), collateral |-> I(1000), collateral_asset |-> "BTS"]

\* list_debt_positions()
DebtChoices ==
    { [s \in S |-> Position] :
        S \in {{}, {"CNY"}, {"USD", "CNY"}, {"USD", "CNY", "EUR"}} }

\* returnBalances(): an asset the account does not hold is not listed
BalanceRich ==
    [a \in Assets |-> IF a = "BTS" THEN I(10000)
                      ELSE IF a = "USD" THEN I(50) ELSE I(100)]
BalanceLowBase ==
    [a \in Assets |-> IF a = "BTS" THEN I(100)
                      ELSE IF a = "USD" THEN I(50) ELSE I(100)]
BalanceOnlyBase == [a \in {"BTS"} |-> I(10000)]

BalanceChoices == {BalanceRich, BalanceLowBase, BalanceOnlyBase}

Prices == {I(400), I(408)}

\* returnTicker(): every market with a settlement price
TickerFeed == [m \in {MarketUSD, MarketCNY} |-> [settlement_price |-> I(400)]]

\* blockchain asset objects: rpc.get_asset / getObject(bitasset_data_id)
AssetOk == [bitasset |-> TRUE, short_backing_asset |-> "BTS"]
AssetChoices ==
    { [a \in {"USD", "CNY"} |-> AssetOk],
      [a \in {"USD", "CNY"} |->
            IF a = "CNY" THEN [AssetOk EXCEPT !.bitasset = FALSE] ELSE AssetOk],
      [a \in {"USD", "CNY"} |->
            IF a = "CNY" THEN [AssetOk EXCEPT !.short_backing_asset = "USD"]
                         ELSE AssetOk] }

\* order numbers whose cancel the exchange rejects
FailChoices == { {}, {11, 21} }

\* ------------------------------------------------------------------------
\* Calls made on the exchange, in the order they are made
\* ------------------------------------------------------------------------
Call(op, market, oid, symbol, price, amount, ok) ==
    [op |-> op, market |-> market, oid |-> oid, symbol |-> symbol,
     price |-> price, amount |-> amount, ok |-> ok]

Query(op) == Call(op, "", 0, "", I(0), I(0), TRUE)

\* update_data(): the four snapshot queries
update_data_calls ==
    << Query("returnTicker"), Query("returnOpenOrders"),
       Query("list_debt_positions"), Query("returnBalances") >>

\* ------------------------------------------------------------------------
\* A result is [err, val]: err names the exception raised ("" when the call
\* returns), val holds the calls made on the exchange, or the value returned.
\* ------------------------------------------------------------------------
Ok(v) == [err |-> "", val |-> v]
Raise(e, v) == [err |-> e, val |-> v]

\* "settlement_price" in self.ticker[market]
has_settlement_price(tk, market) == "settlement_price" \in DOMAIN tk[market]

\* ------------------------------------------------------------------------
\* place_orders(market, only_sell, only_buy)
\*   cfg  : self.settings        tk : self.ticker
\*   live : what self.dex.returnBalances() answers inside place_orders
\* ------------------------------------------------------------------------
\* asset_ids: base and quote of every configured market, in order
RECURSIVE asset_ids(_)
asset_ids(markets) ==
    IF markets = <<>> THEN <<>>
    ELSE <<SplitBase(Head(markets)), SplitQuote(Head(markets))>>
            \o asset_ids(Tail(markets))

\* asset_ids.count(a)
Count(seq, a) == Cardinality({i \in DOMAIN seq : seq[i] = a})

\* amounts[a] = balances[a] * volume_percentage / 100 / asset_ids.count(a)
\* the amounts without the division by the number of markets of the asset
amounts_undivided(cfg, live, ids) ==
    [a \in {x \in {ids[i] : i \in DOMAIN ids} : x \in DOMAIN live} |->
        RDiv(RMul(live[a], cfg.volume_percentage), I(100))]

\*   ids : asset_ids        live : the answer of returnBalances()
amounts_of(cfg, live, ids) ==
    [a \in {x \in {ids[i] : i \in DOMAIN ids} : x \in DOMAIN live} |->
        RDiv(RDiv(RMul(live[a], cfg.volume_percentage), I(100)),
             I(Count(ids, a)))]

amounts(cfg, live) == amounts_of(cfg, live, asset_ids(cfg.markets))

\* lines 177-186: the target price, or the settlement price for "feed",
\* times (1 + target_price_offset_percentage / 100)
base_price(cfg, tk, market) ==
    RMul(IF cfg.target_price.kind = "num"
         THEN cfg.target_price.v
         ELSE tk[market].settlement_price,
         RAdd(I(1), RDiv(cfg.target_price_offset_percentage, I(100))))

buy_price(cfg, tk, market) ==
    RMul(base_price(cfg, tk, market),
         RSub(I(1), RDiv(cfg.spread_percentage, I(200))))

sell_price(cfg, tk, market) ==
    RMul(base_price(cfg, tk, market),
         RAdd(I(1), RDiv(cfg.spread_percentage, I(200))))

\* the sell amount without the symmetric branch
sell_amount_plain(cfg, tk, am, market, only_sell) == am[SplitQuote(market)]

\* the amount of the sell branch (lines 192-200);  am : amounts
sell_amount(cfg, tk, am, market, only_sell) ==
    IF cfg.symmetric_sides /\ ~only_sell
    THEN IF SplitBase(market) \in DOMAIN am
         THEN RMin(am[SplitQuote(market)],
                   RDiv(am[SplitBase(market)], buy_price(cfg, tk, market)))
         ELSE am[SplitQuote(market)]
    ELSE am[SplitQuote(market)]

\* the amount of the buy branch (lines 201-209);  am : amounts
buy_amount(cfg, tk, am, market, only_buy) ==
    IF cfg.symmetric_sides /\ ~only_buy
    THEN IF SplitQuote(market) \in DOMAIN am
         THEN RMin(am[SplitQuote(market)],
                   RDiv(am[SplitBase(market)], buy_price(cfg, tk, market)))
         ELSE RDiv(am[SplitBase(market)], buy_price(cfg, tk, market))
    ELSE RDiv(am[SplitBase(market)], buy_price(cfg, tk, market))

\* the minimum-size test without the configured minimum
MinimumGate_positive(cfg, market, amount) == RGt(amount, I(0))

\* the minimum-size test in front of self.sell / self.buy
MinimumGate(cfg, market, amount) ==
    RGe(amount, cfg.minimum_amounts[SplitQuote(market)])

\* lines 195-196 and 199-200: the minimum test and self.sell
sell_order(cfg, tk, market, amount) ==
    IF MinimumGate(cfg, market, amount)
    THEN << Call("sell", market, 0, "", sell_price(cfg, tk, market),
                 amount, TRUE) >>
    ELSE <<>>

\* lines 204-205 and 208-209: the minimum test and self.buy
buy_order(cfg, tk, market, amount) ==
    IF MinimumGate(cfg, market, amount)
    THEN << Call("buy", market, 0, "", buy_price(cfg, tk, market),
                 amount, TRUE) >>
    ELSE <<>>

\* lines 191-209: the sell branch, then the buy branch;  am : amounts
place_sides(cfg, tk, am, market, only_sell, only_buy) ==
    (IF SplitQuote(market) \in DOMAIN am /\ ~only_buy
     THEN sell_order(cfg, tk, market,
                     sell_amount(cfg, tk, am, market, only_sell))
     ELSE <<>>)
    \o (IF SplitBase(market) \in DOMAIN am /\ ~only_sell
        THEN buy_order(cfg, tk, market,
                       buy_amount(cfg, tk, am, market, only_buy))
        ELSE <<>>)

\* lines 183-186 raise when the feed is the target and the market has no
\* settlement price
place_orders(cfg, tk, live, market, only_sell, only_buy) ==
    IF cfg.target_price.kind # "num" /\ ~has_settlement_price(tk, market)
    THEN Raise("Exception", << Query("returnBalances") >>)
    ELSE Ok(<< Query("returnBalances") >>
            \o place_sides(cfg, tk, amounts(cfg, live), market,
                           only_sell, only_buy))

\* ------------------------------------------------------------------------
\* cancel_orders(market): one cancel per open order of the snapshot; an
\* exception of dex.cancel is caught and printed inside the loop.
\*   fails : the order numbers whose cancel raises
\* ------------------------------------------------------------------------
\* a cancel loop that a failing cancel ends
RECURSIVE cancel_loop_abort(_, _, _)
cancel_loop_abort(orders, market, fails) ==
    IF orders = <<>> THEN <<>>
    ELSE << Call("cancel", market, Head(orders).orderNumber, "", I(0), I(0),
                 Head(orders).orderNumber \notin fails) >>
            \o (IF Head(orders).orderNumber \in fails THEN <<>>
                ELSE cancel_loop_abort(Tail(orders), market, fails))

RECURSIVE cancel_loop(_, _, _)
cancel_loop(orders, market, fails) ==
    IF orders = <<>> THEN <<>>
    ELSE << Call("cancel", market, Head(orders).orderNumber, "", I(0), I(0),
                 Head(orders).orderNumber \notin fails) >>
            \o cancel_loop(Tail(orders), market, fails)

cancel_orders(oo, market, fails) == cancel_loop(oo[market], market, fails)

\* ------------------------------------------------------------------------
\* Debt amounts.
\*   snap : the snapshots [ticker, open_orders, debt_positions, balances]
\* ------------------------------------------------------------------------
RECURSIVE order_list(_, _)
order_list(oo, ms) ==
    IF ms = {} THEN <<>>
    ELSE LET m == CHOOSE x \in ms : TRUE
         IN  oo[m] \o order_list(oo, ms \ {m})

RECURSIVE collaterals(_, _)
collaterals(dp, ks) ==
    IF ks = {} THEN <<>>
    ELSE LET k == CHOOSE x \in ks : TRUE
         IN  (IF dp[k].collateral_asset = "BTS" THEN <<dp[k].collateral>>
                                                ELSE <<>>)
             \o collaterals(dp, ks \ {k})

RECURSIVE buy_totals(_)
buy_totals(orders) ==
    IF orders = <<>> THEN <<>>
    ELSE (IF Head(orders).type = "buy" THEN <<Head(orders).total>> ELSE <<>>)
         \o buy_totals(Tail(orders))

\* get_total_bts(calculation_type): get_debt_amounts passes
\* self.debt_positions as calculation_type, so "not calculation_type" holds
\* exactly when there is no debt position, and then the setting
\* calculate_bts_total is read.
get_total_bts(cfg, snap, calculation_type_empty) ==
    IF calculation_type_empty /\ "calculate_bts_total" \in cfg.missing
    THEN Raise("KeyError", I(0))
    ELSE IF "BTS" \notin DOMAIN snap.balances
    THEN Raise("KeyError", I(0))
    ELSE Ok(RAdd(RAdd(RSum(collaterals(snap.debt_positions,
                                       DOMAIN snap.debt_positions)),
                      snap.balances["BTS"]),
                 RSum(buy_totals(order_list(snap.open_orders,
                                            DOMAIN snap.open_orders)))))

\* quote_amount of one market (line 261)
quote_amount(cfg, snap, total_bts, m) ==
    RDiv(RMul(total_bts,
              RDiv(cfg.borrow_percentages[SplitQuote(m)], I(100))),
         snap.ticker[m].settlement_price)

\* the last market of the settings with quote asset q: its assignment to
\* debt_amounts[q] is the one that stays
last_market(cfg, q) ==
    cfg.markets[CHOOSE i \in DOMAIN cfg.markets :
                    /\ SplitQuote(cfg.markets[i]) = q
                    /\ \A j \in DOMAIN cfg.markets :
                            SplitQuote(cfg.markets[j]) = q => j <= i]

\* lines 258-263;  t : the result of get_total_bts
debt_amounts_of(cfg, snap, t) ==
    IF t.err # "" THEN Raise(t.err, <<>>)
    ELSE IF \E i \in DOMAIN cfg.markets :
                ~has_settlement_price(snap.ticker, cfg.markets[i])
    THEN Raise("KeyError", <<>>)
    ELSE Ok([q \in {SplitQuote(cfg.markets[i]) : i \in DOMAIN cfg.markets} |->
                quote_amount(cfg, snap, t.val, last_market(cfg, q))])

get_debt_amounts(cfg, snap) ==
    debt_amounts_of(cfg, snap,
                    get_total_bts(cfg, snap, DOMAIN snap.debt_positions = {}))

borrow_call(cfg, symbol, amount) ==
    Call("borrow", "", 0, symbol, cfg.ratio, amount, TRUE)

\* place_initial_debt_positions(): one borrow per key of debt_amounts, in
\* the order the keys were inserted (the order of the markets)
RECURSIVE borrow_all(_, _, _)
borrow_all(cfg, ms, da) ==
    IF ms = <<>> THEN <<>>
    ELSE << borrow_call(cfg, SplitQuote(Head(ms)), da[SplitQuote(Head(ms))]) >>
            \o borrow_all(cfg, Tail(ms), da)

\* lines 233-236;  d : the result of get_debt_amounts
borrow_amounts(cfg, d) ==
    IF d.err # "" THEN Raise(d.err, <<>>)
    ELSE Ok(borrow_all(cfg, cfg.markets, d.val))

place_initial_debt_positions(cfg, snap) ==
    borrow_amounts(cfg, get_debt_amounts(cfg, snap))

\* ------------------------------------------------------------------------
\* update_debt_positions()
\* ------------------------------------------------------------------------
\* the number of debt positions that line 242 takes for the initialized state
InitializedPositions == 3

\* line 244
change_percentage(amount, debt) ==
    RMul(RFabs(RSub(RDiv(amount, debt), I(1))), I(100))

\* adjust_debt_amount(delta_amount, symbol)
adjust_debt_amount(cfg, delta_amount, symbol) ==
    Call("adjust_debt", "", 0, symbol, cfg.ratio, delta_amount, TRUE)

\* lines 244-248 for one symbol;  dp : self.debt_positions
adjust_one(cfg, dp, symbol, amount) ==
    IF RGe(change_percentage(amount, dp[symbol].debt),
           cfg.minimum_change_percentage)
    THEN << adjust_debt_amount(cfg, RSub(amount, dp[symbol].debt), symbol) >>
    ELSE <<>>

\*   first : calls for a symbol   rest : result for the symbols after it
adjust_next(first, rest) == [err |-> rest.err, val |-> first \o rest.val]

\* lines 243-248: the items of debt_amounts in the order of the markets;
\* reading the position of a symbol without position raises KeyError
RECURSIVE adjust_all(_, _, _, _)
adjust_all(cfg, dp, ms, da) ==
    IF ms = <<>> THEN Ok(<<>>)
    ELSE IF SplitQuote(Head(ms)) \notin DOMAIN dp THEN Raise("KeyError", <<>>)
    ELSE adjust_next(adjust_one(cfg, dp, SplitQuote(Head(ms)),
                                da[SplitQuote(Head(ms))]),
                     adjust_all(cfg, dp, Tail(ms), da))

\* lines 240-250;  d : the result of get_debt_amounts (line 239)
update_positions_of(cfg, snap, d) ==
    IF d.err # "" THEN Raise(d.err, <<>>)
    ELSE IF Cardinality(DOMAIN snap.debt_positions) = 0
    THEN place_initial_debt_positions(cfg, snap)
    ELSE IF Cardinality(DOMAIN snap.debt_positions) = InitializedPositions
    THEN adjust_all(cfg, snap.debt_positions, cfg.markets, d.val)
    ELSE Ok(<<>>)

update_debt_positions(cfg, snap) ==
    update_positions_of(cfg, snap, get_debt_amounts(cfg, snap))

\* ------------------------------------------------------------------------
\* check_and_replace(market)
\* ------------------------------------------------------------------------
order_feed_spread(tk, market, o) ==
    RFabs(RMul(RDiv(RSub(o.rate, tk[market].settlement_price),
                    tk[market].settlement_price), I(100)))

\* the condition of line 145 with strict comparisons
Stale_strict(cfg, s) ==
    \/ RLt(s, RDiv(cfg.allowed_spread_percentage, I(2)))
    \/ RGt(s, RDiv(RAdd(cfg.allowed_spread_percentage,
                        cfg.spread_percentage), I(2)))

\* the condition of line 145 with the lower threshold not halved
Stale_unhalved(cfg, s) ==
    \/ RLe(s, cfg.allowed_spread_percentage)
    \/ RGe(s, RDiv(RAdd(cfg.allowed_spread_percentage,
                        cfg.spread_percentage), I(2)))

\* the condition of line 145;  s : order_feed_spread
Stale(cfg, s) ==
    \/ RLe(s, RDiv(cfg.allowed_spread_percentage, I(2)))
    \/ RGe(s, RDiv(RAdd(cfg.allowed_spread_percentage,
                        cfg.spread_percentage), I(2)))

\* lines 135-141: the placements made before the orders are examined
first_placements(cfg, snap, live, market) ==
    IF Len(snap.open_orders[market]) = 0
    THEN place_orders(cfg, snap.ticker, live, market, FALSE, FALSE)
    ELSE IF Len(snap.open_orders[market]) = 1
    THEN IF snap.open_orders[market][1].type = "sell"
         THEN place_orders(cfg, snap.ticker, live, market, FALSE, TRUE)
         ELSE IF snap.open_orders[market][1].type = "buy"
         THEN place_orders(cfg, snap.ticker, live, market, TRUE, FALSE)
         ELSE Ok(<<>>)
    ELSE Ok(<<>>)

\* lines 151-154;  d : the result of get_debt_amounts
borrow_missing(cfg, symbol, d) ==
    IF d.err # "" THEN Raise(d.err, <<>>)
    ELSE Ok(<< borrow_call(cfg, symbol, d.val[symbol]) >>)

\* the borrow without the test of line 150
debt_check_always(cfg, snap, market) ==
    borrow_missing(cfg, SplitQuote(market), get_debt_amounts(cfg, snap))

\* lines 149-155: borrow when the quote asset has no debt position
debt_check(cfg, snap, market) ==
    IF SplitQuote(market) \in DOMAIN snap.debt_positions THEN Ok(<<>>)
    ELSE borrow_missing(cfg, SplitQuote(market), get_debt_amounts(cfg, snap))

\* lines 142-148: the orders are examined in order (each examination prints
\* the spread, recorded as an "examine" entry); the first stale order makes
\* the loop cancel the market's orders, place both sides and return True.
\* In the results of the loop, ret tells whether True was returned.
\* line 144: the print of the order's spread
examine(tk, market, o) ==
    Call("examine", market, o.orderNumber, "", I(0),
         order_feed_spread(tk, market, o), TRUE)

\* the loop goes on to the orders after the one examined
examine_next(e, rest) ==
    [err |-> rest.err, val |-> <<e>> \o rest.val, ret |-> rest.ret]

\* lines 146-148;  e : the print   cancels : calls of cancel_orders
\*   placed : result of place_orders
replace(e, cancels, placed) ==
    [err |-> placed.err, val |-> <<e>> \o cancels \o placed.val,
     ret |-> placed.err = ""]

\* The result is [err, val, ret].  Line 143 reads the market's settlement
\* price for every order.
RECURSIVE examine_loop(_, _, _, _, _, _)
examine_loop(cfg, snap, live, fails, market, orders) ==
    IF orders = <<>> THEN [err |-> "", val |-> <<>>, ret |-> FALSE]
    ELSE IF ~has_settlement_price(snap.ticker, market)
    THEN [err |-> "KeyError", val |-> <<>>, ret |-> FALSE]
    ELSE IF Stale(cfg, order_feed_spread(snap.ticker, market, Head(orders)))
    THEN replace(examine(snap.ticker, market, Head(orders)),
                 cancel_orders(snap.open_orders, market, fails),
                 place_orders(cfg, snap.ticker, live, market, FALSE, FALSE))
    ELSE examine_next(examine(snap.ticker, market, Head(orders)),
                      examine_loop(cfg, snap, live, fails, market,
                                   Tail(orders)))

\* lines 134-155: an exception ends the method; True is returned after a
\* replace, the debt check runs otherwise
\*   first : result of lines 135-141   loop : result of the loop
\*   d : result of the debt check
after_loop(first, loop, d) ==
    IF first.err # ""
    THEN [err |-> first.err, ret |-> FALSE, val |-> first.val]
    ELSE IF loop.err # ""
    THEN [err |-> loop.err, ret |-> FALSE, val |-> first.val \o loop.val]
    ELSE IF loop.ret
    THEN [err |-> "", ret |-> TRUE, val |-> first.val \o loop.val]
    ELSE [err |-> d.err, ret |-> FALSE,
          val |-> first.val \o loop.val \o d.val]

\* The result is [err, val, ret]: val the calls made, ret the value returned.
check_and_replace(cfg, snap, live, fails, market) ==
    IF market \in DOMAIN snap.open_orders
    THEN after_loop(first_placements(cfg, snap, live, market),
                    examine_loop(cfg, snap, live, fails, market,
                                 snap.open_orders[market]),
                    debt_check(cfg, snap, market))
    ELSE after_loop(Ok(<<>>), [err |-> "", val |-> <<>>, ret |-> FALSE],
                    debt_check(cfg, snap, market))

\* the loop of tick() over settings["markets"]; an exception ends it.
\* The result is [err, val, reached]: reached counts the markets for which
\* check_and_replace was called.
\*   r : result of check_and_replace for a market
\*   rest : result of the loop for the markets after it
reconcile_next(r, rest) ==
    IF r.err # ""
    THEN [err |-> r.err, val |-> r.val, reached |-> 1]
    ELSE [err |-> rest.err, val |-> r.val \o rest.val,
          reached |-> 1 + rest.reached]

RECURSIVE reconcile(_, _, _, _, _)
reconcile(cfg, snap, live, fails, ms) ==
    IF ms = <<>> THEN [err |-> "", val |-> <<>>, reached |-> 0]
    ELSE reconcile_next(check_and_replace(cfg, snap, live, fails, Head(ms)),
                        reconcile(cfg, snap, live, fails, Tail(ms)))

\* ------------------------------------------------------------------------
\* State
\* ------------------------------------------------------------------------
VARIABLES
    settings,        \* self.settings
    dex,             \* the exchange: what its queries answer at the moment
    phase,           \* "constructed", "running" (init returned), "failed"
    block_counter,   \* self.block_counter
    ticker,          \* self.ticker
    open_orders,     \* self.open_orders
    debt_positions,  \* self.debt_positions
    balances,        \* self.balances
    calls,           \* calls made on the exchange by the last init()/tick()
    live,            \* what returnBalances() answered inside place_orders
    reached,         \* markets given to check_and_replace by the last tick()
    err,             \* exception raised by the last method called, or ""
    moves,           \* changes of the exchange data so far
    handler          \* the method of the strategy called last ("": none)

vars == <<settings, dex, phase, block_counter, ticker, open_orders,
          debt_positions, balances, calls, live, reached, err, moves,
          handler>>

snapshot == [ticker |-> ticker, open_orders |-> open_orders,
             debt_positions |-> debt_positions, balances |-> balances]

\* The strategy as constructed, with settings of S, on an exchange whose
\* ticker is one of T
InitWith(S, T) ==
    /\ settings \in S
    /\ dex \in [ticker : T,
                open_orders : OpenOrdersChoices,
                debt_positions : DebtChoices,
                balances : {BalanceRich},
                assets : AssetChoices]
    /\ phase = "constructed"
    /\ block_counter = -1
    /\ ticker = <<>>
    /\ open_orders = <<>>
    /\ debt_positions = <<>>
    /\ balances = <<>>
    /\ calls = <<>>
    /\ live = <<>>
    /\ reached = 0
    /\ err = ""
    /\ moves = 0
    /\ handler = ""

Init == InitWith(SettingsChoices, {TickerFeed})

\* ------------------------------------------------------------------------
\* init(): defaults and required settings (lines 58-89)
\* ------------------------------------------------------------------------
InitKeys == <<"target_price_offset_percentage", "target_price",
              "spread_percentage", "volume_percentage", "symmetric_sides",
              "expiration", "skip_blocks", "ratio", "borrow_percentages",
              "minimum_amounts", "minimum_change_percentage">>

DefaultSkipBlocks == 20
DefaultExpiration == 86400

SetDefault(cfg, key) ==
    LET c == [cfg EXCEPT !.missing = @ \ {key}]
    IN  IF key = "target_price_offset_percentage"
        THEN [c EXCEPT !.target_price_offset_percentage = I(0)]
        ELSE IF key = "symmetric_sides"
        THEN [c EXCEPT !.symmetric_sides = TRUE]
        ELSE IF key = "expiration"
        THEN [c EXCEPT !.expiration = DefaultExpiration]
        ELSE [c EXCEPT !.skip_blocks = DefaultSkipBlocks]

IsRequired(key) == \E i \in DOMAIN RequiredKeys : RequiredKeys[i] = key

\* The result is [err, val]: val the settings as init() leaves them.
RECURSIVE check_settings(_, _)
check_settings(cfg, keys) ==
    IF keys = <<>> THEN Ok(cfg)
    ELSE IF Head(keys) \notin cfg.missing THEN check_settings(cfg, Tail(keys))
    ELSE IF IsRequired(Head(keys)) THEN Raise("MissingSettingsException", cfg)
    ELSE check_settings(SetDefault(cfg, Head(keys)), Tail(keys))

\* the verification without the test of the backing asset
RECURSIVE check_markets_unbacked(_, _)
check_markets_unbacked(assets, ms) ==
    IF ms = <<>> THEN ""
    ELSE IF ~assets[SplitQuote(Head(ms))].bitasset THEN "ValueError"
    ELSE check_markets_unbacked(assets, Tail(ms))

\* lines 93-107: every quote asset is a bitasset backed by the base asset
RECURSIVE check_markets(_, _)
check_markets(assets, ms) ==
    IF ms = <<>> THEN ""
    ELSE IF ~assets[SplitQuote(Head(ms))].bitasset THEN "ValueError"
    ELSE IF assets[SplitQuote(Head(ms))].short_backing_asset
                # SplitBase(Head(ms)) THEN "AssertionError"
    ELSE check_markets(assets, Tail(ms))

\* ------------------------------------------------------------------------
\* tick(): the state it leaves, as [block_counter, snap, calls, reached, err]
\*   snap : the snapshots before the call     bal, fails : see above
\* ------------------------------------------------------------------------
\* the gate taken on the counter before its increment
IsActive_before(cfg, counter) == ((counter - 1) % cfg.skip_blocks) = 0

\* the gate closed for the tick that init() runs
IsActive_positive(cfg, counter) ==
    counter > 0 /\ (counter % cfg.skip_blocks) = 0

IsActive(cfg, counter) == (counter % cfg.skip_blocks) = 0

\* update_data(): the snapshots it stores
update_data ==
    [ticker |-> dex.ticker, open_orders |-> dex.open_orders,
     debt_positions |-> dex.debt_positions, balances |-> dex.balances]

\* lines 128-131;  c : the counter   r : the result of the loop over markets
active_tick(c, r) ==
    [block_counter |-> c, snap |-> update_data,
     calls |-> update_data_calls \o r.val,
     reached |-> r.reached, err |-> r.err]

tick(cfg, counter, snap, bal, fails) ==
    IF IsActive(cfg, counter + 1)
    THEN active_tick(counter + 1,
                     reconcile(cfg, update_data, bal, fails, cfg.markets))
    ELSE [block_counter |-> counter + 1, snap |-> snap, calls |-> <<>>,
          reached |-> 0, err |-> ""]

\* the answer of returnBalances() to place_orders, when place_orders ran:
\* n is the number of update_data() calls among cs
Sized(cs, n, bal) ==
    IF Cardinality({i \in DOMAIN cs : cs[i].op = "returnBalances"}) > n
    THEN bal ELSE <<>>

SetSnapshot(snap) ==
    /\ ticker' = snap.ticker
    /\ open_orders' = snap.open_orders
    /\ debt_positions' = snap.debt_positions
    /\ balances' = snap.balances

\* init() as called by the bot runner on the constructed strategy
InitStrategy(bal, fails) ==
    /\ phase = "constructed"
    /\ handler' = "init"
    /\ UNCHANGED <<dex, moves>>
    /\ \E s \in {check_settings(settings, InitKeys)},
          m \in {check_markets(dex.assets, settings.markets)},
          fresh \in {update_data} :
        /\ settings' = s.val
        /\ IF s.err # "" \/ m # ""
           THEN /\ phase' = "failed"
                /\ err' = (IF s.err # "" THEN s.err ELSE m)
                /\ calls' = <<>>
                /\ reached' = 0
                /\ UNCHANGED <<block_counter, ticker, open_orders,
                               debt_positions, balances, live>>
           ELSE \E boot \in {IF DOMAIN fresh.debt_positions = {}
                             THEN place_initial_debt_positions(s.val, fresh)
                             ELSE Ok(<<>>)} :
                IF boot.err # ""
                THEN /\ phase' = "failed"
                     /\ err' = boot.err
                     /\ calls' = update_data_calls
                     /\ reached' = 0
                     /\ SetSnapshot(fresh)
                     /\ UNCHANGED <<block_counter, live>>
                ELSE \E t \in {tick(s.val, block_counter, fresh, bal, fails)} :
                     /\ phase' = (IF t.err # "" THEN "failed" ELSE "running")
                     /\ err' = t.err
                     /\ calls' = update_data_calls \o boot.val \o t.calls
                     /\ live' = Sized(t.calls, 1, bal)
                     /\ reached' = t.reached
                     /\ SetSnapshot(t.snap)
                     /\ block_counter' = t.block_counter

\* tick() as called for every block once init() returned
Tick(bal, fails) ==
    /\ phase = "running"
    /\ block_counter < MaxCounter
    /\ handler' = "tick"
    /\ UNCHANGED <<settings, dex, phase, moves>>
    /\ \E t \in {tick(settings, block_counter, snapshot, bal, fails)} :
        /\ block_counter' = t.block_counter
        /\ SetSnapshot(t.snap)
        /\ calls' = t.calls
        /\ reached' = t.reached
        /\ err' = t.err
        /\ live' = Sized(t.calls, 1, bal)

\* the exchange publishes a new settlement price for a market
FeedMoves(m, p) ==
    /\ moves < MaxMoves
    /\ dex.ticker[m] # [settlement_price |-> p]
    /\ dex' = [dex EXCEPT !.ticker[m] = [settlement_price |-> p]]
    /\ moves' = moves + 1
    /\ UNCHANGED <<settings, phase, block_counter, ticker, open_orders,
                   debt_positions, balances, calls, live, reached, err,
                   handler>>

\* debt positions are opened (a borrow took effect) or closed by the owner
DebtChanges(d) ==
    /\ moves < MaxMoves
    /\ dex.debt_positions # d
    /\ dex' = [dex EXCEPT !.debt_positions = d]
    /\ moves' = moves + 1
    /\ UNCHANGED <<settings, phase, block_counter, ticker, open_orders,
                   debt_positions, balances, calls, live, reached, err,
                   handler>>

\* update_debt_positions() called on the running strategy
UpdateDebtPositions ==
    /\ phase = "running"
    /\ handler' = "update_debt_positions"
    /\ \E r \in {update_debt_positions(settings, snapshot)} :
        /\ calls' = r.val
        /\ err' = r.err
    /\ reached' = 0
    /\ live' = <<>>
    /\ UNCHANGED <<settings, dex, phase, block_counter, ticker, open_orders,
                   debt_positions, balances, moves>>

Next ==
    \/ \E bal \in BalanceChoices, fails \in FailChoices : InitStrategy(bal, fails)
    \/ \E bal \in BalanceChoices, fails \in FailChoices : Tick(bal, fails)
    \/ \E p \in Prices : FeedMoves(MarketUSD, p)
    \/ \E d \in DebtChoices : DebtChanges(d)

Spec == Init /\ [][Next]_vars

\* returnTicker() with a market that has no settlement price
TickerNoUSD ==
    [m \in {MarketUSD, MarketCNY} |->
        IF m = MarketUSD THEN [last |-> I(400)]
                         ELSE [settlement_price |-> I(400)]]

FaultSettings ==
    { ExampleSettings,
      [ExampleSettings EXCEPT !.skip_blocks = 1],
      [ExampleSettings EXCEPT !.target_price = Fixed(I(400))] }

InitFaults == InitWith(FaultSettings, {TickerFeed, TickerNoUSD})

\* the strategy on an exchange that may lack a settlement price
SpecFaults == InitFaults /\ [][Next]_vars

\* the strategy with update_debt_positions() among the methods called
NextDebt ==
    \/ Next
    \/ UpdateDebtPositions

\* the settings that the debt amounts depend on
DebtSettings ==
    { ExampleSettings,
      [ExampleSettings EXCEPT !.skip_blocks = 1],
      [ExampleSettings EXCEPT !.missing = {"calculate_bts_total"}] }

InitDebt == InitWith(DebtSettings, {TickerFeed})

SpecDebt == InitDebt /\ [][NextDebt]_vars

\* ------------------------------------------------------------------------
\* Vocabulary of the properties
\* ------------------------------------------------------------------------
ConfiguredMarkets == {settings.markets[i] : i \in DOMAIN settings.markets}

\* check_and_replace(m) was called by the last tick()
Reconciled(m) == \E i \in 1..reached : settings.markets[i] = m

IsCallOf(c, m, ops) == c.market = m /\ c.op \in ops

\* the calls of the last init()/tick() for market m with an op in ops
CallsOf(m, ops) ==
    LET Test(c) == IsCallOf(c, m, ops) IN SelectSeq(calls, Test)

\* position in calls of the last cancel for market m (0: none)
LastCancel(m) ==
    LET idx == {i \in DOMAIN calls : IsCallOf(calls[i], m, {"cancel"})}
    IN  IF idx = {} THEN 0
        ELSE CHOOSE i \in idx : \A j \in idx : j <= i

\* the placements for market m made after position n of calls
PlacedAfter(m, n) ==
    LET Test(c) == IsCallOf(c, m, {"sell", "buy"})
    IN  SelectSeq(SubSeq(calls, n + 1, Len(calls)), Test)

Placements(cs) ==
    LET Test(c) == c.op \in {"sell", "buy"} IN SelectSeq(cs, Test)

\* |rate - settlement_price| / settlement_price * 100 <= x/2 for market m
\* and order o of the snapshot, by cross-multiplication of the fractions
SpreadAtMost(m, o, x) ==
    LET p == ticker[m].settlement_price
    IN  200 * Abs(o.rate[1] * p[2] - p[1] * o.rate[2]) * x[2]
            <= x[1] * o.rate[2] * p[1]

SpreadAtLeast(m, o, x) ==
    LET p == ticker[m].settlement_price
    IN  200 * Abs(o.rate[1] * p[2] - p[1] * o.rate[2]) * x[2]
            >= x[1] * o.rate[2] * p[1]

\* order o of market m is at or beyond one of the two replace thresholds
Triggers(m, o) ==
    \/ SpreadAtMost(m, o, settings.allowed_spread_percentage)
    \/ SpreadAtLeast(m, o, RAdd(settings.allowed_spread_percentage,
                                settings.spread_percentage))

\* market m has open orders in the snapshot and was reconciled
HasOrders(m) ==
    /\ Reconciled(m)
    /\ m \in DOMAIN open_orders
    /\ open_orders[m] # <<>>

\* ------------------------------------------------------------------------
\* C1  Scheduler gating: block_counter starts at -1; every tick() adds
\* exactly 1 to it; the tick queries the snapshots and reconciles if and
\* only if the new counter is a multiple of skip_blocks; every other tick
\* makes no call on the exchange and changes nothing but the counter.
\* ------------------------------------------------------------------------
C1_TickStep ==
    /\ (block_counter' # block_counter
            \/ (phase = "running"
                    /\ <<ticker, open_orders, debt_positions, balances,
                         calls>>' # <<ticker, open_orders, debt_positions,
                                      balances, calls>>))
       => block_counter' = block_counter + 1
    /\ block_counter' # block_counter =>
        LET onbeat == \E k \in 0..block_counter' :
                            block_counter' = k * settings'.skip_blocks
            queries == {i \in DOMAIN calls' : calls'[i].market = ""
                            /\ calls'[i].op \in {"returnTicker",
                                    "returnOpenOrders", "list_debt_positions",
                                    "returnBalances"}}
        IN  /\ onbeat <=> (queries # {} /\ reached' >= 1)
            /\ ~onbeat =>
                    /\ calls' = <<>>
                    /\ UNCHANGED <<settings, dex, phase, ticker, open_orders,
                                   debt_positions, balances>>

C1_SchedulerGating == (block_counter = -1) /\ [][C1_TickStep]_vars

\* an inactive tick has run while the exchange held a newer price than the
\* snapshot
C1_Witness ==
    /\ settings.skip_blocks = 2
    /\ block_counter = 1
    /\ calls = <<>>
    /\ ticker # dex.ticker

\* ------------------------------------------------------------------------
\* C2  Replace thresholds: on an active tick, for a reconciled market with
\* open orders, if some order has a spread from the feed <= allowed/2 or
\* >= (allowed + spread)/2, then every open order of the market is
\* cancelled once, both sides are placed again after the cancels, and no
\* order after the first such order is examined; if no order has, nothing
\* is cancelled.
\* ------------------------------------------------------------------------
C2_ReplaceThresholds ==
    \A m \in ConfiguredMarkets : HasOrders(m) =>
        LET orders == open_orders[m]
            T == {i \in DOMAIN orders : Triggers(m, orders[i])}
            cancels == CallsOf(m, {"cancel"})
            examined == CallsOf(m, {"examine"})
            after == PlacedAfter(m, LastCancel(m))
        IN  IF T # {}
            THEN /\ Len(cancels) = Len(orders)
                 /\ \A i \in DOMAIN orders :
                        cancels[i].oid = orders[i].orderNumber
                 /\ \A i \in DOMAIN examined : \A j \in T : i <= j
                 /\ \E j \in T : Len(examined) = j
                 /\ after = Placements(place_orders(settings, ticker, live,
                                                    m, FALSE, FALSE).val)
                 /\ live = BalanceRich =>
                        /\ Len(after) = 2
                        /\ after[1].op = "sell"
                        /\ after[2].op = "buy"
            ELSE /\ cancels = <<>>
                 /\ Len(examined) = Len(orders)

\* with allowed 2.5 and spread 5: an order 1% from the feed followed by one
\* 4% from it was replaced once, an order 2% from the feed was kept
C2_Witness ==
    /\ settings.allowed_spread_percentage = R(5, 2)
    /\ settings.spread_percentage = I(5)
    /\ HasOrders(MarketUSD)
    /\ ticker[MarketUSD].settlement_price = I(400)
    /\ Len(open_orders[MarketUSD]) = 2
    /\ open_orders[MarketUSD][1].rate = I(404)
    /\ open_orders[MarketUSD][2].rate = I(384)
    /\ Len(CallsOf(MarketUSD, {"cancel"})) = 2
    /\ Len(CallsOf(MarketUSD, {"examine"})) = 1
    /\ Len(PlacedAfter(MarketUSD, LastCancel(MarketUSD))) = 2

\* ------------------------------------------------------------------------
\* C3  Idempotence: a market whose snapshot holds a buy and a sell order,
\* every order with a spread strictly between allowed/2 and
\* (allowed + spread)/2, gets no cancel and no placement, however many
\* times in succession it is reconciled on the unchanged snapshot.
\* ------------------------------------------------------------------------
Compliant(m) ==
    /\ HasOrders(m)
    /\ \E i \in DOMAIN open_orders[m] : open_orders[m][i].type = "buy"
    /\ \E i \in DOMAIN open_orders[m] : open_orders[m][i].type = "sell"
    /\ \A i \in DOMAIN open_orders[m] : ~Triggers(m, open_orders[m][i])

C3_Idempotence ==
    \A m \in ConfiguredMarkets :
        Compliant(m) => CallsOf(m, {"cancel", "sell", "buy"}) = <<>>

\* the third reconciliation in succession of a compliant market, the
\* exchange unchanged since the first
C3_Witness ==
    /\ settings.skip_blocks = 1
    /\ block_counter = 2
    /\ moves = 0
    /\ Compliant(MarketUSD)
    /\ Len(CallsOf(MarketUSD, {"examine"})) = 2

\* ------------------------------------------------------------------------
\* C4  Debt-position gating: a reconciled market whose quote asset has no
\* debt position in the snapshot gets no placeSell and no placeBuy on that
\* tick, and a borrow for the quote asset is issued by the tick.
\* ------------------------------------------------------------------------
\* position in calls where the last tick() began (its returnTicker query)
TickStart ==
    LET idx == {i \in DOMAIN calls : calls[i].op = "returnTicker"}
    IN  IF idx = {} THEN 0 ELSE CHOOSE i \in idx : \A j \in idx : j <= i

BorrowedByTick(symbol) ==
    \E i \in DOMAIN calls :
        /\ i > TickStart
        /\ calls[i].op = "borrow"
        /\ calls[i].symbol = symbol

C4_DebtGating ==
    \A m \in ConfiguredMarkets :
        (Reconciled(m) /\ SplitQuote(m) \notin DOMAIN debt_positions) =>
            /\ CallsOf(m, {"sell", "buy"}) = <<>>
            /\ BorrowedByTick(SplitQuote(m))

\* ------------------------------------------------------------------------
\* C5  OneSidedOrder: a reconciled market with exactly one open order in
\* the snapshot gets no cancel, no order on the side of that order, and at
\* most one order, on the missing side.
\* ------------------------------------------------------------------------
MissingSide(o) == IF o.type = "sell" THEN "buy" ELSE "sell"

C5_OneSided ==
    \A m \in ConfiguredMarkets :
        (HasOrders(m) /\ Len(open_orders[m]) = 1) =>
            LET cmds == CallsOf(m, {"cancel", "sell", "buy"})
            IN  /\ Len(cmds) <= 1
                /\ \A i \in DOMAIN cmds :
                        cmds[i].op = MissingSide(open_orders[m][1])

\* ------------------------------------------------------------------------
\* C6  NoOrders: a reconciled market without open order in the snapshot,
\* listed with an empty sequence or not listed, gets one sell and one buy
\* when the balances make both sizes reach the minimum.
\* ------------------------------------------------------------------------
NoOrders(m) ==
    /\ Reconciled(m)
    /\ (m \notin DOMAIN open_orders \/ open_orders[m] = <<>>)

AmpleBalances == balances = BalanceRich /\ live \in {<<>>, BalanceRich}

C6_NoOrdersBothSides ==
    \A m \in ConfiguredMarkets :
        (NoOrders(m) /\ AmpleBalances
                /\ ~settings.only_buy /\ ~settings.only_sell) =>
            /\ Len(CallsOf(m, {"sell"})) = 1
            /\ Len(CallsOf(m, {"buy"})) = 1

\* ------------------------------------------------------------------------
\* C7  Side restriction: with only_buy set no sell is ever placed, with
\* only_sell set no buy is ever placed.
\* ------------------------------------------------------------------------
C7_SideRestriction ==
    \A i \in DOMAIN calls :
        /\ settings.only_buy => calls[i].op # "sell"
        /\ settings.only_sell => calls[i].op # "buy"

\* ------------------------------------------------------------------------
\* C8  Minimum-size gate: every sell and every buy ever placed has an
\* amount of at least minimum_amounts[quote] of its market.
\* ------------------------------------------------------------------------
C8_MinimumSize ==
    \A i \in DOMAIN calls :
        calls[i].op \in {"sell", "buy"} =>
            LET least == settings.minimum_amounts[SplitQuote(calls[i].market)]
                a == calls[i].amount
            IN  a[1] * least[2] >= least[1] * a[2]

\* without symmetric sides and with a low base balance the sell of an empty
\* market was placed and its buy, sized below the minimum, was not
C8_Witness ==
    /\ ~settings.symmetric_sides
    /\ live = BalanceLowBase
    /\ NoOrders(MarketUSD)
    /\ MarketUSD \in DOMAIN open_orders
    /\ Len(CallsOf(MarketUSD, {"sell"})) = 1
    /\ CallsOf(MarketUSD, {"buy"}) = <<>>

\* ------------------------------------------------------------------------
\* C9  Best-effort cancellation: in a replace the cancels of the market are
\* one per open order of the snapshot, in order and in a row, whatever the
\* outcome of each; the placement of both sides follows them, and the tick
\* goes on to the next market.
\* ------------------------------------------------------------------------
C9_BestEffortCancel ==
    \A m \in ConfiguredMarkets :
        (HasOrders(m) /\ CallsOf(m, {"cancel"}) # <<>>) =>
            LET orders == open_orders[m]
                last == LastCancel(m)
                first == last - Len(orders) + 1
            IN  /\ first >= 1
                /\ \A k \in DOMAIN orders :
                        /\ IsCallOf(calls[first + k - 1], m, {"cancel"})
                        /\ calls[first + k - 1].oid = orders[k].orderNumber
                /\ Len(CallsOf(m, {"cancel"})) = Len(orders)
                /\ last < Len(calls)
                /\ calls[last + 1].op = "returnBalances"
                /\ live = BalanceRich =>
                        /\ last + 3 <= Len(calls)
                        /\ IsCallOf(calls[last + 2], m, {"sell"})
                        /\ IsCallOf(calls[last + 3], m, {"buy"})
                /\ \A i \in DOMAIN settings.markets :
                        (settings.markets[i] = m /\ i < Len(settings.markets))
                            => reached > i

\* the first of two cancels failed, the second was attempted and both sides
\* were placed
C9_Witness ==
    \E i \in DOMAIN calls :
        /\ i + 4 <= Len(calls)
        /\ calls[i].op = "cancel" /\ ~calls[i].ok
        /\ calls[i + 1].op = "cancel" /\ calls[i + 1].ok
        /\ calls[i + 3].op = "sell"
        /\ calls[i + 4].op = "buy"
        /\ reached = 2

\* ------------------------------------------------------------------------
\* C10  Debt bootstrap: for settings that init() accepts, when init() finds
\* no debt position it issues one borrow per configured market's quote
\* asset, of totalBacking * (borrow_percentages[quote]/100) /
\* settlement_price at the configured ratio, and does not raise.
\* ------------------------------------------------------------------------
\* init() ran, accepted the settings and the markets, and no tick() ran since
AfterAcceptingInit ==
    /\ phase # "constructed"
    /\ block_counter <= 0
    /\ err \notin {"MissingSettingsException", "ValueError", "AssertionError"}

RECURSIVE SumBuyTotals(_, _)
SumBuyTotals(oo, ms) ==
    IF ms = {} THEN I(0)
    ELSE LET m == CHOOSE x \in ms : TRUE
             buys == {i \in DOMAIN oo[m] : oo[m][i].type = "buy"}
         IN  RAdd(RMul(I(Cardinality(buys)), I(100)),
                  SumBuyTotals(oo, ms \ {m}))

\* total backing when there is no debt position: no collateral
TotalBackingNoDebt ==
    RAdd(balances["BTS"], SumBuyTotals(open_orders, DOMAIN open_orders))

Desired(m) ==
    RDiv(RMul(TotalBackingNoDebt,
              RDiv(settings.borrow_percentages[SplitQuote(m)], I(100))),
         ticker[m].settlement_price)

C10_DebtBootstrap ==
    (AfterAcceptingInit /\ DOMAIN debt_positions = {}) =>
        /\ ~(phase = "failed" /\ block_counter = -1)
        /\ Len(calls) >= 4 + Len(settings.markets)
        /\ \A i \in DOMAIN settings.markets :
                /\ calls[4 + i].op = "borrow"
                /\ calls[4 + i].symbol = SplitQuote(settings.markets[i])
                /\ calls[4 + i].amount = Desired(settings.markets[i])
                /\ calls[4 + i].price = settings.ratio

\* ------------------------------------------------------------------------
\* C11  Debt hysteresis: when update_debt_positions() finds as many debt
\* positions as configured markets, it issues for each market's quote asset
\* an adjust-debt of desired - current at the configured ratio if and only
\* if |desired/current - 1| * 100 >= minimum_change_percentage.
\* ------------------------------------------------------------------------
RECURSIVE SumCollateral(_, _)
SumCollateral(dp, ks) ==
    IF ks = {} THEN I(0)
    ELSE LET k == CHOOSE x \in ks : TRUE
         IN  RAdd(IF dp[k].collateral_asset = "BTS" THEN dp[k].collateral
                                                    ELSE I(0),
                  SumCollateral(dp, ks \ {k}))

TotalBacking ==
    RAdd(SumCollateral(debt_positions, DOMAIN debt_positions),
         TotalBackingNoDebt)

DesiredDebt(m) ==
    RDiv(RMul(TotalBacking,
              RDiv(settings.borrow_percentages[SplitQuote(m)], I(100))),
         ticker[m].settlement_price)

\* |desired/current - 1| * 100 >= minimum_change_percentage, cross-multiplied
Drifted(desired, current) ==
    100 * Abs(desired[1] * current[2] - current[1] * desired[2])
            * settings.minimum_change_percentage[2]
        >= settings.minimum_change_percentage[1] * desired[2] * current[1]

Adjusted(symbol, delta) ==
    \E i \in DOMAIN calls :
        /\ calls[i].op = "adjust_debt"
        /\ calls[i].symbol = symbol
        /\ calls[i].amount = delta
        /\ calls[i].price = settings.ratio

AdjustedAtAll(symbol) ==
    \E i \in DOMAIN calls :
        calls[i].op = "adjust_debt" /\ calls[i].symbol = symbol

C11_DebtHysteresis ==
    (handler = "update_debt_positions"
        /\ Cardinality(DOMAIN debt_positions) = Len(settings.markets)) =>
        \A i \in DOMAIN settings.markets :
            LET q == SplitQuote(settings.markets[i])
                desired == DesiredDebt(settings.markets[i])
            IN  q \in DOMAIN debt_positions =>
                    IF Drifted(desired, debt_positions[q].debt)
                    THEN Adjusted(q, RSub(desired, debt_positions[q].debt))
                    ELSE ~AdjustedAtAll(q)

\* ------------------------------------------------------------------------
\* C12  Inconsistent debt state: when update_debt_positions() finds a number
\* of debt positions that is neither zero nor the number of configured
\* markets, it issues no borrow and no adjust-debt.
\* ------------------------------------------------------------------------
C12_InconsistentDebt ==
    (handler = "update_debt_positions"
        /\ Cardinality(DOMAIN debt_positions)
                \notin {0, Len(settings.markets)}) =>
        \A i \in DOMAIN calls : calls[i].op \notin {"borrow", "adjust_debt"}

\* ------------------------------------------------------------------------
\* C13  Per-tick errors do not stop the scheduler: when the reconciliation
\* of a market fails on an active tick because the market's settlement
\* price is missing, the same tick still reconciles every remaining
\* configured market.
\* ------------------------------------------------------------------------
ActiveTick == handler = "tick" /\ calls # <<>>

PriceMissing ==
    \E m \in ConfiguredMarkets : ~has_settlement_price(ticker, m)

C13_TickSurvivesErrors ==
    (ActiveTick /\ PriceMissing) => reached = Len(settings.markets)

\* ------------------------------------------------------------------------
\* C14  Startup errors precede all trading: when a required setting is
\* missing or a market's quote asset is not a bitasset backed by the
\* market's base asset, init() fails with no borrow, adjust-debt, placement
\* or cancel issued and no tick run.
\* ------------------------------------------------------------------------
RequiredMissing ==
    \E i \in DOMAIN RequiredKeys : RequiredKeys[i] \in settings.missing

BadAssets ==
    \E m \in ConfiguredMarkets :
        \/ ~dex.assets[SplitQuote(m)].bitasset
        \/ dex.assets[SplitQuote(m)].short_backing_asset # SplitBase(m)

C14_StartupErrorsFirst ==
    (phase # "constructed" /\ (RequiredMissing \/ BadAssets)) =>
        /\ phase = "failed"
        /\ err \in {"MissingSettingsException", "ValueError", "AssertionError"}
        /\ block_counter = -1
        /\ \A i \in DOMAIN calls :
                calls[i].op \notin {"borrow", "adjust_debt", "sell", "buy",
                                    "cancel"}

\* init() was refused for a quote asset backed by another asset than the base
C14_Witness ==
    /\ handler = "init"
    /\ phase = "failed"
    /\ err = "AssertionError"
    /\ dex.debt_positions = <<>>
    /\ block_counter = -1

\* ------------------------------------------------------------------------
\* C15  Bootstrap tick: an init() that returns has run exactly one tick,
\* tick number 0, which refreshed the snapshots and reconciled every market
\* whatever skip_blocks; of the ticks called after init the first
\* skip_blocks - 1 are inactive and the skip_blocks-th is active.
\* ------------------------------------------------------------------------
Refreshes == Cardinality({i \in DOMAIN calls : calls[i].op = "returnTicker"})

C15_BootstrapTick ==
    /\ (handler = "init" /\ phase = "running") =>
            /\ block_counter = 0
            /\ Refreshes = 2
            /\ reached = Len(settings.markets)
    /\ (handler = "tick" /\ block_counter < settings.skip_blocks) =>
            calls = <<>>
    /\ (handler = "tick" /\ block_counter = settings.skip_blocks) =>
            Refreshes = 1 /\ reached >= 1

\* with skip_blocks 2 the second tick after init was the next active one
C15_Witness ==
    /\ handler = "tick"
    /\ settings.skip_blocks = 2
    /\ block_counter = 2
    /\ Refreshes = 1
    /\ reached = 2

\* ------------------------------------------------------------------------
\* C16  Snapshot discipline: an active tick makes each of the four snapshot
\* queries exactly once, before anything else, reconciles every configured
\* market, and sizes its orders against the balances of the snapshot.
\* ------------------------------------------------------------------------
SnapshotQueries ==
    {"returnTicker", "returnOpenOrders", "list_debt_positions",
     "returnBalances"}

TimesQueried(op) == Cardinality({i \in DOMAIN calls : calls[i].op = op})

C16_SnapshotDiscipline ==
    ActiveTick =>
        /\ \A op \in SnapshotQueries : TimesQueried(op) = 1
        /\ Len(calls) >= 4
        /\ \A i \in 1..4 : calls[i].op \in SnapshotQueries
        /\ err = "" => reached = Len(settings.markets)
        /\ live \in {<<>>, balances}

\* ------------------------------------------------------------------------
\* C17  Symmetric sizing: with symmetric_sides, a placement of both sides
\* sizes the sell and the buy at min(allocated_quote, allocated_base /
\* buy_price); without symmetric_sides, or when one side is requested, the
\* sell is sized allocated_quote and the buy allocated_base / buy_price.
\* ------------------------------------------------------------------------
\* the number of configured markets that asset a is part of
Referencing(a) ==
    Cardinality({i \in DOMAIN settings.markets :
                    a \in {SplitQuote(settings.markets[i]),
                           SplitBase(settings.markets[i])}})

\* live[a] * volume_percentage / 100 / Referencing(a)
Allocated(a) ==
    Norm(live[a][1] * settings.volume_percentage[1],
         live[a][2] * settings.volume_percentage[2] * 100 * Referencing(a))

\* call i of the last method was made by a place_orders for both sides
BothRequested(m, i) ==
    \/ Len(open_orders[m]) = 0
    \/ (LastCancel(m) > 0 /\ i > LastCancel(m))

C17_SymmetricSizing ==
    \A m \in ConfiguredMarkets : \A i \in DOMAIN calls :
        IsCallOf(calls[i], m, {"sell", "buy"}) =>
            IF settings.symmetric_sides /\ BothRequested(m, i)
            THEN {SplitQuote(m), SplitBase(m)} \subseteq DOMAIN live =>
                    calls[i].amount =
                        RMin(Allocated(SplitQuote(m)),
                             RDiv(Allocated(SplitBase(m)),
                                  buy_price(settings, ticker, m)))
            ELSE IF calls[i].op = "sell"
            THEN calls[i].amount = Allocated(SplitQuote(m))
            ELSE calls[i].amount = RDiv(Allocated(SplitBase(m)),
                                        buy_price(settings, ticker, m))

\* both sides of a market without orders were placed with the same amount,
\* smaller than the allocated quote
C17_Witness ==
    /\ settings.symmetric_sides
    /\ MarketUSD \in DOMAIN open_orders
    /\ open_orders[MarketUSD] = <<>>
    /\ "USD" \in DOMAIN live
    /\ \E i, j \in DOMAIN calls :
            /\ IsCallOf(calls[i], MarketUSD, {"sell"})
            /\ IsCallOf(calls[j], MarketUSD, {"buy"})
            /\ calls[i].amount = calls[j].amount
            /\ RLt(calls[i].amount, Allocated("USD"))

\* ------------------------------------------------------------------------
\* C18  Freshly placed walls are stable: with the feed as target price,
\* every order placed has a spread from the settlement price it was
\* computed from strictly between allowed_spread_percentage/2 and
\* (allowed_spread_percentage + spread_percentage)/2.
\* ------------------------------------------------------------------------
C18_FreshWallsStable ==
    \A i \in DOMAIN calls :
        (calls[i].op \in {"sell", "buy"} /\ settings.target_price.kind = "str")
            => ~Triggers(calls[i].market, [rate |-> calls[i].price])

\* ------------------------------------------------------------------------
\* C19  No borrow against an existing position: every borrow is for a
\* symbol without position in the snapshot of debt positions.
\* ------------------------------------------------------------------------
C19_NoBorrowOnPosition ==
    \A i \in DOMAIN calls :
        calls[i].op = "borrow" => calls[i].symbol \notin DOMAIN debt_positions

\* a tick borrowed for the symbol without position and not for the symbol
\* with one
C19_Witness ==
    /\ handler = "tick"
    /\ DOMAIN debt_positions = {"CNY"}
    /\ reached = 2
    /\ BorrowedByTick("USD")
    /\ ~BorrowedByTick("CNY")

\* ------------------------------------------------------------------------
\* C20  Volume cap: every sell has an amount of at most the allocated
\* quote, and every buy an amount times its price of at most the allocated
\* base, the allocation of an asset being balance * volume_percentage / 100
\* / (number of configured markets of the asset) of the balance the
\* placement was sized against.
\* ------------------------------------------------------------------------
C20_VolumeCap ==
    \A i \in DOMAIN calls :
        /\ calls[i].op = "sell" =>
                RLe(calls[i].amount, Allocated(SplitQuote(calls[i].market)))
        /\ calls[i].op = "buy" =>
                RLe(RMul(calls[i].amount, calls[i].price),
                    Allocated(SplitBase(calls[i].market)))

\* a buy committed exactly the allocated base, half of 10% of the balance
C20_Witness ==
    \E i \in DOMAIN calls :
        /\ calls[i].op = "buy"
        /\ live = BalanceRich
        /\ RMul(calls[i].amount, calls[i].price) = I(500)
        /\ Allocated("BTS") = I(500)

====
